---- MODULE Spec2Model ----
(***************************************************************************)
(* OBDTracker: telemetry ingestion and trip sessions.                      *)
(*                                                                         *)
(* The server is one Node.js event loop.  A request handler runs until its *)
(* next `await` of a storage call; with the durable store (DbStorage, the  *)
(* store index.ts wires through storagePromise) every storage call is a    *)
(* round trip to the database, so handlers interleave at each storage      *)
(* call.  One action of this module is one storage call of one handler     *)
(* (the statement the database executes) together with the synchronous     *)
(* code that precedes it in the handler.                                   *)
(*                                                                         *)
(* Units: coordinates are in 1e-4 degrees, distances in 1/1000 mile,       *)
(* speeds in mph, time is a logical clock advanced by every stamping       *)
(* statement.  A nullable column is a sequence of length 0 (null) or 1.    *)
(***************************************************************************)
EXTENDS Integers, Sequences, FiniteSets, TLC

VARIABLES
    vehicles,          \* table vehicles, in insertion order; id = index
    trips,             \* table trips, in insertion order; id = index
    vehicleLocations,  \* table vehicle_locations, in insertion order
    obdData,           \* table obd_data, in insertion order
    apiKeys,           \* table api_keys, in insertion order; id = index
    now,               \* the clock behind new Date() / defaultNow()
    clients,           \* the Set<WebSocket> of registerRoutes
    readyState,        \* per observer, its socket's readyState
    delivered,         \* per observer, the messages client.send() was given
    published,         \* the messages broadcast() was called with, in order
    req,               \* the handlers in flight, one per slot
    response,          \* the last response sent: [kind, status, tripId]
    nreq,              \* requests accepted so far
    nsync,             \* sync cycles started so far
    updates            \* history: per trip, the updateTrip calls ingestion made

vars == <<vehicles, trips, vehicleLocations, obdData, apiKeys, now, clients,
          readyState, delivered, published, req, response, nreq,
          nsync, updates>>

stores == <<vehicles, trips, vehicleLocations, obdData, apiKeys>>

----------------------------------------------------------------------------
(* Bounds of the model *)

\* HTTP requests accepted in one behaviour, and sync cycles started in one.
MaxRequests == 2
MaxSyncs == 1

\* Handlers that can be in flight together, the vehicle ids a request may
\* name (1 is the seeded vehicle), the observers, the key values.
Slots == {1, 2}
VehicleIds == {1, 2}
Observers == {1, 2}
ApiKeyValues == {"fts_1"}
NoKey == ""

----------------------------------------------------------------------------
(* Coordinates and the haversine distance *)

PtA == [lat |-> 407485, lng |-> -739883]
PtB == [lat |-> 407580, lng |-> -739855]
PtX == [lat |-> 2000000, lng |-> -739883]

Points == {PtA, PtB, PtX}

\* A position on the equator, as a device of the provider may report it.
PtEquator == [lat |-> 0, lng |-> -739883]

\* calculateDistance on the points of the model: R * c with R = 3959,
\* evaluated by the source's formula and rounded to 1/1000 mile.
calculateDistance(lat1, lng1, lat2, lng2) ==
    LET p == [lat |-> lat1, lng |-> lng1]
        q == [lat |-> lat2, lng |-> lng2]
    IN  CASE p = q -> 0
          [] {p, q} = {PtA, PtB} -> 673
          [] {p, q} = {PtA, PtX} -> 11003894
          [] {p, q} = {PtB, PtX} -> 11003238

Max(a, b) == IF a >= b THEN a ELSE b

----------------------------------------------------------------------------
(* Rows and values *)

\* undefined, as getActiveTrip / getTrip return it
NoTrip ==
    [id |-> 0, vehicleId |-> 0, startLocation |-> "", endLocation |-> <<>>,
     startCoords |-> PtA, endCoords |-> <<>>, distance |-> 0, duration |-> 0,
     avgSpeed |-> 0, maxSpeed |-> 0, route |-> <<>>, startTime |-> 0,
     endTime |-> <<>>, status |-> "none"]

NoLocation ==
    [id |-> 0, vehicleId |-> 0, tripId |-> 0, latitude |-> 0, longitude |-> 0,
     speed |-> 0, timestamp |-> 0]

NoObd == [id |-> 0, vehicleId |-> 0, rpm |-> 0, timestamp |-> 0]

Num(n) == [t |-> "number", v |-> n]
Str(n) == [t |-> "string", v |-> n]
Missing == [t |-> "missing", v |-> 0]

\* A request body of POST /api/obd/location or /api/obd/data.
Raw(vid, lat, lng, speed, rpm) ==
    [vehicleId |-> vid, latitude |-> lat, longitude |-> lng, speed |-> speed,
     rpm |-> rpm]

NoRaw == Raw(Missing, Missing, Missing, 0, 0)

NoDevice ==
    [device_id |-> "", hasLatLng |-> FALSE, lat |-> 0, lng |-> 0, speed |-> 0]

IdleReq ==
    [kind |-> "none", pc |-> "idle", key |-> NoKey, raw |-> NoRaw,
     vehicleId |-> 0, tripId |-> 0, text |-> "", coords |-> PtA,
     location |-> NoLocation, obd |-> NoObd, activeTrip |-> NoTrip,
     devices |-> <<>>, vehicle |-> 0, syncedCount |-> 0,
     doneAtStart |-> {}]

NoResponse == [kind |-> "none", status |-> 0, tripId |-> 0]

----------------------------------------------------------------------------
(* The state after construction: seedDatabase on an empty database *)

SeedVehicle == [id |-> 1, plate |-> "ABC-1234", isActive |-> 1]

SeedTrip ==
    [id |-> 1, vehicleId |-> 1,
     startLocation |-> "1250 Broadway, New York, NY 10001",
     endLocation |-> <<>>, startCoords |-> PtA, endCoords |-> <<>>,
     distance |-> 142300, duration |-> 10020, avgSpeed |-> 51,
     maxSpeed |-> 75, route |-> <<>>, startTime |-> 1, endTime |-> <<>>,
     status |-> "active"]

SeedLocation ==
    [id |-> 1, vehicleId |-> 1, tripId |-> 1, latitude |-> PtA.lat,
     longitude |-> PtA.lng, speed |-> 68, timestamp |-> 2]

SeedObd == [id |-> 1, vehicleId |-> 1, rpm |-> 2450, timestamp |-> 3]

Init ==
    /\ vehicles = <<SeedVehicle>>
    /\ trips = <<SeedTrip>>
    /\ vehicleLocations = <<SeedLocation>>
    /\ obdData = <<SeedObd>>
    /\ apiKeys = <<>>
    /\ now = 4
    /\ clients = {}
    /\ readyState = [o \in Observers |-> "NONE"]
    /\ delivered = [o \in Observers |-> <<>>]
    /\ published = <<>>
    /\ req = [s \in Slots |-> IdleReq]
    /\ response = NoResponse
    /\ nreq = 0
    /\ nsync = 0
    /\ updates = <<0>>

----------------------------------------------------------------------------
(* DbStorage: each operator is the statement one storage call executes *)

\* where vehicle_id = vehicleId and status = 'active'
\* A lookup that matches on the vehicle alone, without the status filter.
IsTripOf(trip, vehicleId) ==
    trip.vehicleId = vehicleId

\* A lookup that matches on the status alone, whatever the vehicle.
IsActiveTrip(trip, vehicleId) ==
    trip.status = "active"

IsActiveTripOf(trip, vehicleId) ==
    trip.vehicleId = vehicleId /\ trip.status = "active"

\* getActiveTrip: the rows its query may return.  With `limit 1` and no
\* ORDER BY any matching row may be the one returned; undefined when none.
getActiveTrip(vehicleId) ==
    LET rows == {i \in 1..Len(trips) : IsActiveTripOf(trips[i], vehicleId)}
    IN  IF rows = {} THEN {NoTrip} ELSE {trips[i] : i \in rows}

\* A createTrip that carries the distance of the trips before it over.
createTripCarryingOver(insertTrip) ==
    [id |-> Len(trips) + 1, vehicleId |-> insertTrip.vehicleId,
     startLocation |-> insertTrip.startLocation,
     endLocation |-> insertTrip.endLocation,
     startCoords |-> insertTrip.startCoords,
     endCoords |-> insertTrip.endCoords,
     distance |-> IF trips = <<>> THEN insertTrip.distance
                  ELSE trips[Len(trips)].distance,
     duration |-> insertTrip.duration, avgSpeed |-> insertTrip.avgSpeed,
     maxSpeed |-> insertTrip.maxSpeed, route |-> insertTrip.route,
     startTime |-> now, endTime |-> <<>>, status |-> insertTrip.status]

\* createTrip: the row inserted for `insertTrip`, id and start_time defaulted
createTrip(insertTrip) ==
    [id |-> Len(trips) + 1, vehicleId |-> insertTrip.vehicleId,
     startLocation |-> insertTrip.startLocation,
     endLocation |-> insertTrip.endLocation,
     startCoords |-> insertTrip.startCoords,
     endCoords |-> insertTrip.endCoords, distance |-> insertTrip.distance,
     duration |-> insertTrip.duration, avgSpeed |-> insertTrip.avgSpeed,
     maxSpeed |-> insertTrip.maxSpeed, route |-> insertTrip.route,
     startTime |-> now, endTime |-> <<>>, status |-> insertTrip.status]

\* updateTrip: update trips set <updates> where id = id
updateTrip(id, upd) ==
    [i \in 1..Len(trips) |->
        IF trips[i].id = id
        THEN [f \in DOMAIN trips[i] |->
                 IF f \in DOMAIN upd THEN upd[f] ELSE trips[i][f]]
        ELSE trips[i]]

\* A completeTrip that keeps the end_coords live tracking has recorded.
completeTripKeepingLive(id, endLocation, endCoords) ==
    [i \in 1..Len(trips) |->
        IF trips[i].id = id
        THEN [trips[i] EXCEPT !.endLocation = <<endLocation>>,
                              !.endCoords = IF trips[i].endCoords = <<>>
                                            THEN <<endCoords>>
                                            ELSE trips[i].endCoords,
                              !.endTime = <<now>>,
                              !.status = "completed"]
        ELSE trips[i]]

\* completeTrip: update trips set end_location, end_coords, end_time, status
\* where id = id
completeTrip(id, endLocation, endCoords) ==
    [i \in 1..Len(trips) |->
        IF trips[i].id = id
        THEN [trips[i] EXCEPT !.endLocation = <<endLocation>>,
                              !.endCoords = <<endCoords>>,
                              !.endTime = <<now>>,
                              !.status = "completed"]
        ELSE trips[i]]

\* The rows of a set ordered by their start_time column, newest first.
RECURSIVE OrderByStartTimeDesc(_)
OrderByStartTimeDesc(rows) ==
    IF rows = {}
    THEN <<>>
    ELSE LET first == CHOOSE r \in rows :
                          \A r2 \in rows : r.startTime >= r2.startTime
         IN  <<first>> \o OrderByStartTimeDesc(rows \ {first})

\* A lookup that orders by start_time ascending.
getTripsByVehicleOldestFirst(vehicleId) ==
    LET rows == OrderByStartTimeDesc(
                    {trips[i] : i \in {j \in 1..Len(trips) :
                                          trips[j].vehicleId = vehicleId}})
    IN  [i \in 1..Len(rows) |-> rows[Len(rows) + 1 - i]]

\* select ... where vehicle_id = $1 order by start_time desc
getTripsByVehicle(vehicleId) ==
    OrderByStartTimeDesc({trips[i] : i \in {j \in 1..Len(trips) :
                                               trips[j].vehicleId = vehicleId}})

\* createVehicleLocation: the row inserted, id and timestamp defaulted
createVehicleLocation(insertLocation) ==
    [id |-> Len(vehicleLocations) + 1, vehicleId |-> insertLocation.vehicleId,
     tripId |-> insertLocation.tripId, latitude |-> insertLocation.latitude,
     longitude |-> insertLocation.longitude, speed |-> insertLocation.speed,
     timestamp |-> now]

\* The rows of a set ordered by their timestamp column, oldest first.
RECURSIVE OrderByTimestamp(_)
OrderByTimestamp(rows) ==
    IF rows = {}
    THEN <<>>
    ELSE LET first == CHOOSE r \in rows :
                          \A r2 \in rows : r.timestamp <= r2.timestamp
         IN  <<first>> \o OrderByTimestamp(rows \ {first})

\* A lookup that orders by timestamp ascending: the oldest row of the vehicle.
getOldestVehicleLocation(vehicleId) ==
    LET rows == OrderByTimestamp(
                    {vehicleLocations[i] : i \in
                        {j \in 1..Len(vehicleLocations) :
                            vehicleLocations[j].vehicleId = vehicleId}})
    IN  IF rows = <<>> THEN NoLocation ELSE rows[1]

\* select ... where vehicle_id = $1 order by timestamp desc limit 1
getVehicleLocation(vehicleId) ==
    LET rows == OrderByTimestamp(
                    {vehicleLocations[i] : i \in
                        {j \in 1..Len(vehicleLocations) :
                            vehicleLocations[j].vehicleId = vehicleId}})
    IN  IF rows = <<>> THEN NoLocation ELSE rows[Len(rows)]

\* select ... where trip_id = $1 order by timestamp
getVehicleRoute(tripId) ==
    OrderByTimestamp({vehicleLocations[i] : i \in
                         {j \in 1..Len(vehicleLocations) :
                             vehicleLocations[j].tripId = tripId}})

\* createObdData: the row inserted, id and timestamp defaulted
createObdData(insertData) ==
    [id |-> Len(obdData) + 1, vehicleId |-> insertData.vehicleId,
     rpm |-> insertData.rpm, timestamp |-> now]

\* A lookup that orders by timestamp ascending: the oldest diagnostic.
getOldestObdData(vehicleId) ==
    LET rows == OrderByTimestamp(
                    {obdData[i] : i \in
                        {j \in 1..Len(obdData) :
                            obdData[j].vehicleId = vehicleId}})
    IN  IF rows = <<>> THEN NoObd ELSE rows[1]

\* select ... where vehicle_id = $1 order by timestamp desc limit 1
getLatestObdData(vehicleId) ==
    LET rows == OrderByTimestamp(
                    {obdData[i] : i \in
                        {j \in 1..Len(obdData) :
                            obdData[j].vehicleId = vehicleId}})
    IN  IF rows = <<>> THEN NoObd ELSE rows[Len(rows)]

\* A lookup that matches on the key alone, without the is_active filter.
getApiKeyIgnoringActive(key) ==
    \E i \in 1..Len(apiKeys) : apiKeys[i].key = key

\* getApiKey: where key = key and is_active = 1
getApiKey(key) ==
    \E i \in 1..Len(apiKeys) : apiKeys[i].key = key /\ apiKeys[i].isActive = 1

\* deleteApiKey: update api_keys set is_active = 0 where id = id
deleteApiKey(id) ==
    [i \in 1..Len(apiKeys) |->
        IF apiKeys[i].id = id THEN [apiKeys[i] EXCEPT !.isActive = 0]
        ELSE apiKeys[i]]

\* updateApiKeyLastUsed: update api_keys set last_used_at where key = key
updateApiKeyLastUsed(key) ==
    [i \in 1..Len(apiKeys) |->
        IF apiKeys[i].key = key THEN [apiKeys[i] EXCEPT !.lastUsedAt = <<now>>]
        ELSE apiKeys[i]]

----------------------------------------------------------------------------
(* MemStorage, had it been given the calls the tables record: its Map of   *)
(* locations holds every row createVehicleLocation made under the row's id *)
(* and, under the key `<vehicleId>-current`, the latest row of the vehicle; *)
(* the seeded location is under the -current key alone.                    *)

\* MemStorage.getApiKey: a stub that returns undefined
MemStorage_getApiKey(key) == FALSE

\* MemStorage.getVehicleLocation: the entry under `<vehicleId>-current`
MemStorage_getVehicleLocation(vehicleId) ==
    LET idx == {j \in 1..Len(vehicleLocations) :
                   vehicleLocations[j].vehicleId = vehicleId}
    IN  IF idx = {} THEN NoLocation
        ELSE vehicleLocations[CHOOSE j \in idx : \A k \in idx : k <= j]

\* How many entries of the Map hold the row with this id.
MemStorage_entries(id) ==
    (IF id = SeedLocation.id THEN 0 ELSE 1)
    + (IF vehicleLocations[id]
            = MemStorage_getVehicleLocation(vehicleLocations[id].vehicleId)
       THEN 1 ELSE 0)

\* The rows of a sequence, each as often as the Map holds it.
RECURSIVE MemStorage_values(_)
MemStorage_values(rows) ==
    IF rows = <<>>
    THEN <<>>
    ELSE LET r == Head(rows)
             n == MemStorage_entries(r.id)
         IN  (IF n = 0 THEN <<>> ELSE IF n = 1 THEN <<r>> ELSE <<r, r>>)
             \o MemStorage_values(Tail(rows))

\* MemStorage.getVehicleRoute: the values of the Map with this tripId,
\* sorted by timestamp
MemStorage_getVehicleRoute(tripId) ==
    MemStorage_values(getVehicleRoute(tripId))

----------------------------------------------------------------------------
(* Validation: the zod schemas drizzle-zod derives from the tables *)

\* insertVehicleLocationSchema.parse: vehicle_id is a not-null varchar,
\* latitude and longitude are not-null reals; the other columns are
\* optional.  The schema states no range for a coordinate.
\* A schema that requires vehicle_id alone.
vehicleIdOnlySchemaOk(raw) ==
    raw.vehicleId.t = "string"

insertVehicleLocationSchemaOk(raw) ==
    /\ raw.vehicleId.t = "string"
    /\ raw.latitude.t = "number"
    /\ raw.longitude.t = "number"

\* insertObdDataSchema.parse: vehicle_id is the only required column
insertObdDataSchemaOk(raw) ==
    raw.vehicleId.t = "string"

----------------------------------------------------------------------------
(* The fanout of registerRoutes *)

LocationUpdate(location) ==
    [type |-> "location", vehicleId |-> location.vehicleId,
     latitude |-> location.latitude, longitude |-> location.longitude,
     speed |-> location.speed, timestamp |-> location.timestamp]

ObdUpdate(obd) ==
    [type |-> "obd", vehicleId |-> obd.vehicleId, rpm |-> obd.rpm,
     timestamp |-> obd.timestamp]

\* A broadcast that sends to every client of the set, open or not.
broadcastToAll(message) ==
    /\ published' = Append(published, message)
    /\ delivered' = [o \in Observers |->
                        IF o \in clients
                        THEN Append(delivered[o], message)
                        ELSE delivered[o]]

\* A broadcast whose message overtakes the ones sent before it.
broadcastOvertaking(message) ==
    /\ published' = Append(published, message)
    /\ delivered' = [o \in Observers |->
                        IF o \in clients /\ readyState[o] = "OPEN"
                        THEN <<message>> \o delivered[o]
                        ELSE delivered[o]]

\* broadcast: send to every client of the set whose readyState is OPEN
\* (client.send queues the data on an open socket and does not throw)
broadcast(message) ==
    /\ published' = Append(published, message)
    /\ delivered' = [o \in Observers |->
                        IF o \in clients /\ readyState[o] = "OPEN"
                        THEN Append(delivered[o], message)
                        ELSE delivered[o]]

\* wss.on('connection'): clients.add(ws)
Connect(o) ==
    /\ readyState[o] = "NONE"
    /\ clients' = clients \cup {o}
    /\ readyState' = [readyState EXCEPT ![o] = "OPEN"]
    /\ UNCHANGED <<stores, now, delivered, published, req, response, nreq,
                   nsync, updates>>

\* The connection breaks or its closing handshake begins: readyState leaves
\* OPEN, and the socket's events have not run yet.
SocketClosing(o) ==
    /\ readyState[o] = "OPEN"
    /\ readyState' = [readyState EXCEPT ![o] = "CLOSING"]
    /\ UNCHANGED <<stores, now, clients, delivered, published, req, response,
                   nreq, nsync, updates>>

\* ws.on('error'): clients.delete(ws); the 'close' event follows
OnError(o) ==
    /\ o \in clients
    /\ readyState[o] = "CLOSING"
    /\ clients' = clients \ {o}
    /\ UNCHANGED <<stores, now, readyState, delivered, published, req,
                   response, nreq, nsync, updates>>

\* ws.on('close'): clients.delete(ws); the socket is CLOSED when it runs
OnClose(o) ==
    /\ readyState[o] \in {"OPEN", "CLOSING"}
    /\ readyState' = [readyState EXCEPT ![o] = "CLOSED"]
    /\ clients' = clients \ {o}
    /\ UNCHANGED <<stores, now, delivered, published, req, response, nreq,
                   nsync, updates>>

----------------------------------------------------------------------------
(* Handlers *)

fanout == <<clients, readyState, delivered, published>>

Idle(s) == req[s].pc = "idle"

\* A new handler takes the first idle slot.
Free(s) == Idle(s) /\ \A s2 \in Slots : s2 < s => ~Idle(s2)

CompletedTrips == {i \in 1..Len(trips) : trips[i].status = "completed"}

Response(kind, status, tripId) ==
    [kind |-> kind, status |-> status, tripId |-> tripId]

\* res.status(code).json(...): the handler of slot s ends
Respond(s, code) ==
    /\ req' = [req EXCEPT ![s] = IdleReq]
    /\ response' = Response(req[s].kind, code, 0)

\* The request bodies a device may post.
Samples == {<<PtA, 40>>, <<PtB, 80>>, <<PtX, 40>>}

LocationBodies ==
    {Raw(Str(v), Num(sm[1].lat), Num(sm[1].lng), sm[2], 0) :
        v \in VehicleIds, sm \in Samples}
    \cup {Raw(Missing, Num(PtA.lat), Num(PtA.lng), 40, 0),
          Raw(Str(1), Missing, Num(PtA.lng), 40, 0),
          Raw(Str(1), Num(PtA.lat), Str(0), 40, 0)}

ObdBodies ==
    {Raw(Str(v), Missing, Missing, 0, 3000) : v \in VehicleIds}
    \cup {Raw(Missing, Missing, Missing, 0, 3000)}

\* validateApiKey up to its first storage call: 401 without the header,
\* else getApiKey and 403 when no active key matches.
ValidateApiKey(s, kind, key, raw) ==
    /\ Free(s)
    /\ nreq < MaxRequests
    /\ nreq' = nreq + 1
    /\ IF key = NoKey
       THEN /\ response' = Response(kind, 401, 0)
            /\ UNCHANGED req
       ELSE IF ~getApiKey(key)
       THEN /\ response' = Response(kind, 403, 0)
            /\ UNCHANGED req
       ELSE /\ req' = [req EXCEPT ![s] =
                          [IdleReq EXCEPT
                             !.kind = kind, !.key = key, !.raw = raw,
                             !.doneAtStart = CompletedTrips,
                             !.pc = "updateApiKeyLastUsed"]]
            /\ UNCHANGED response
    /\ UNCHANGED <<stores, now, fanout, nsync, updates>>

\* validateApiKey: storage.getApiKey rejects.  The middleware has no catch:
\* the router either passes the rejection to the error handler of index.ts,
\* which answers 500, or does not see it, and the request is never answered.
ValidateApiKeyRejects(s, kind, key, raw, answered) ==
    /\ Free(s)
    /\ nreq < MaxRequests
    /\ nreq' = nreq + 1
    /\ key # NoKey
    /\ IF answered
       THEN /\ response' = Response(kind, 500, 0)
            /\ UNCHANGED req
       ELSE /\ req' = [req EXCEPT ![s] =
                          [IdleReq EXCEPT
                             !.kind = kind, !.key = key, !.raw = raw,
                             !.doneAtStart = CompletedTrips,
                             !.pc = "unanswered"]]
            /\ UNCHANGED response
    /\ UNCHANGED <<stores, now, fanout, nsync, updates>>

\* validateApiKey: await storage.updateApiKeyLastUsed(apiKey); next()
UpdateApiKeyLastUsed(s) ==
    /\ req[s].pc = "updateApiKeyLastUsed"
    /\ apiKeys' = updateApiKeyLastUsed(req[s].key)
    /\ req' = [req EXCEPT ![s].pc = IF req[s].kind = "location"
                                    THEN "createVehicleLocation"
                                    ELSE "createObdData"]
    /\ UNCHANGED <<vehicles, trips, vehicleLocations, obdData, now, fanout,
                   response, nreq, nsync, updates>>

\* POST /api/obd/location: parse, then await storage.createVehicleLocation
LocCreateVehicleLocation(s) ==
    /\ req[s].kind = "location"
    /\ req[s].pc = "createVehicleLocation"
    /\ IF insertVehicleLocationSchemaOk(req[s].raw)
       THEN LET row == createVehicleLocation(
                          [vehicleId |-> req[s].raw.vehicleId.v, tripId |-> 0,
                           latitude |-> req[s].raw.latitude.v,
                           longitude |-> req[s].raw.longitude.v,
                           speed |-> req[s].raw.speed])
            IN  /\ vehicleLocations' = Append(vehicleLocations, row)
                /\ now' = now + 1
                /\ req' = [req EXCEPT ![s].location = row,
                                      ![s].pc = "getActiveTrip"]
                /\ UNCHANGED response
       ELSE /\ Respond(s, 400)
            /\ UNCHANGED <<vehicleLocations, now>>
    /\ UNCHANGED <<vehicles, trips, obdData, apiKeys, fanout, nreq, nsync,
                   updates>>

\* POST /api/obd/location: await storage.getActiveTrip(location.vehicleId)
LocGetActiveTrip(s) ==
    /\ req[s].kind = "location"
    /\ req[s].pc = "getActiveTrip"
    /\ \E t \in getActiveTrip(req[s].location.vehicleId) :
          req' = [req EXCEPT ![s].activeTrip = t,
                             ![s].pc = IF t.id # 0 THEN "updateTrip"
                                       ELSE "broadcast"]
    /\ UNCHANGED <<stores, now, fanout, response, nreq, nsync, updates>>

\* An updates object that writes back the status of the trip as it was read.
LocTripUpdatesWithStatus(activeTrip, location) ==
    [route |-> Append(activeTrip.route,
                      [lat |-> location.latitude, lng |-> location.longitude,
                       timestamp |-> location.timestamp]),
     maxSpeed |-> Max(activeTrip.maxSpeed, location.speed),
     endCoords |-> <<[lat |-> location.latitude,
                      lng |-> location.longitude]>>,
     status |-> activeTrip.status]

\* The updates object the location handler computes from the trip it read.
LocTripUpdates(activeTrip, location) ==
    LET currentRoute == activeTrip.route
        newRoutePoint == [lat |-> location.latitude,
                          lng |-> location.longitude,
                          timestamp |-> location.timestamp]
        additionalDistance ==
            IF Len(currentRoute) > 0
            THEN LET lastPoint == currentRoute[Len(currentRoute)]
                 IN  calculateDistance(lastPoint.lat, lastPoint.lng,
                                       location.latitude, location.longitude)
            ELSE 0
    IN  [route |-> Append(currentRoute, newRoutePoint),
         distance |-> activeTrip.distance + additionalDistance,
         maxSpeed |-> Max(activeTrip.maxSpeed, location.speed),
         endCoords |-> <<[lat |-> location.latitude,
                          lng |-> location.longitude]>>]

\* A trip update that publishes a notification of its own.
LocUpdateTripPublishing(s) ==
    /\ req[s].kind = "location"
    /\ req[s].pc = "updateTrip"
    /\ trips' = updateTrip(req[s].activeTrip.id,
                           LocTripUpdates(req[s].activeTrip, req[s].location))
    /\ updates' = [updates EXCEPT ![req[s].activeTrip.id] = @ + 1]
    /\ req' = [req EXCEPT ![s].pc = "broadcast"]
    /\ broadcast(LocationUpdate(req[s].location))
    /\ UNCHANGED <<vehicles, vehicleLocations, obdData, apiKeys, now, clients,
                   readyState, response, nreq, nsync>>

\* POST /api/obd/location: await storage.updateTrip(activeTrip.id, {...})
LocUpdateTrip(s) ==
    /\ req[s].kind = "location"
    /\ req[s].pc = "updateTrip"
    /\ trips' = updateTrip(req[s].activeTrip.id,
                           LocTripUpdates(req[s].activeTrip, req[s].location))
    /\ updates' = [updates EXCEPT ![req[s].activeTrip.id] = @ + 1]
    /\ req' = [req EXCEPT ![s].pc = "broadcast"]
    /\ UNCHANGED <<vehicles, vehicleLocations, obdData, apiKeys, now, fanout,
                   response, nreq, nsync>>

\* A location handler that answers 500 when a client of the set is not open.
LocBroadcastOrFail(s) ==
    /\ req[s].kind = "location"
    /\ req[s].pc = "broadcast"
    /\ broadcast(LocationUpdate(req[s].location))
    /\ Respond(s, IF \E o \in clients : readyState[o] # "OPEN"
                  THEN 500 ELSE 200)
    /\ UNCHANGED <<stores, now, clients, readyState, nreq, nsync, updates>>

\* POST /api/obd/location: broadcast(locationUpdate); res.json(location)
LocBroadcast(s) ==
    /\ req[s].kind = "location"
    /\ req[s].pc = "broadcast"
    /\ broadcast(LocationUpdate(req[s].location))
    /\ Respond(s, 200)
    /\ UNCHANGED <<stores, now, clients, readyState, nreq, nsync, updates>>

\* POST /api/obd/location: a storage call of the handler rejects; the catch
\* block answers 500
LocStorageFails(s) ==
    /\ req[s].kind = "location"
    /\ \/ /\ req[s].pc = "createVehicleLocation"
          /\ insertVehicleLocationSchemaOk(req[s].raw)
       \/ req[s].pc \in {"getActiveTrip", "updateTrip"}
    /\ Respond(s, 500)
    /\ UNCHANGED <<stores, now, fanout, nreq, nsync, updates>>

\* POST /api/obd/data: parse, then await storage.createObdData
ObdCreateObdData(s) ==
    /\ req[s].kind = "obd"
    /\ req[s].pc = "createObdData"
    /\ IF insertObdDataSchemaOk(req[s].raw)
       THEN LET row == createObdData([vehicleId |-> req[s].raw.vehicleId.v,
                                      rpm |-> req[s].raw.rpm])
            IN  /\ obdData' = Append(obdData, row)
                /\ now' = now + 1
                /\ req' = [req EXCEPT ![s].obd = row, ![s].pc = "broadcast"]
                /\ UNCHANGED response
       ELSE /\ Respond(s, 400)
            /\ UNCHANGED <<obdData, now>>
    /\ UNCHANGED <<vehicles, trips, vehicleLocations, apiKeys, fanout, nreq,
                   nsync, updates>>

\* POST /api/obd/data: broadcast(obdUpdate); res.json(obdData)
ObdBroadcast(s) ==
    /\ req[s].kind = "obd"
    /\ req[s].pc = "broadcast"
    /\ broadcast(ObdUpdate(req[s].obd))
    /\ Respond(s, 200)
    /\ UNCHANGED <<stores, now, clients, readyState, nreq, nsync, updates>>

\* POST /api/trips up to the answer of getActiveTrip: 400 when a trip is
\* returned.
StartTripGetActiveTrip(s, vehicleId, startLocation, startCoords) ==
    /\ Free(s)
    /\ nreq < MaxRequests
    /\ nreq' = nreq + 1
    /\ \E t \in getActiveTrip(vehicleId) :
          IF t.id # 0
          THEN /\ response' = Response("startTrip", 400, 0)
               /\ UNCHANGED req
          ELSE /\ req' = [req EXCEPT ![s] =
                             [IdleReq EXCEPT
                                !.kind = "startTrip", !.vehicleId = vehicleId,
                                !.text = startLocation,
                                !.coords = startCoords,
                                !.doneAtStart = CompletedTrips,
                                !.pc = "createTrip"]]
               /\ UNCHANGED response
    /\ UNCHANGED <<stores, now, fanout, nsync, updates>>

\* POST /api/trips: await storage.createTrip({...}); res.json(trip)
StartTripCreateTrip(s) ==
    /\ req[s].kind = "startTrip"
    /\ req[s].pc = "createTrip"
    /\ LET row == createTrip(
                     [vehicleId |-> req[s].vehicleId,
                      startLocation |-> req[s].text,
                      startCoords |-> req[s].coords, endLocation |-> <<>>,
                      endCoords |-> <<>>, distance |-> 0, duration |-> 0,
                      avgSpeed |-> 0, maxSpeed |-> 0, route |-> <<>>,
                      status |-> "active"])
       IN  /\ trips' = Append(trips, row)
           /\ response' = Response("startTrip", 200, row.id)
    /\ req' = [req EXCEPT ![s] = IdleReq]
    /\ updates' = Append(updates, 0)
    /\ now' = now + 1
    /\ UNCHANGED <<vehicles, vehicleLocations, obdData, apiKeys, fanout, nreq,
                   nsync>>

\* POST /api/trips/:id/complete: await storage.completeTrip(...); 404 when
\* no row is returned.
CompleteTrip(id, endLocation, endCoords) ==
    /\ nreq < MaxRequests
    /\ nreq' = nreq + 1
    /\ trips' = completeTrip(id, endLocation, endCoords)
    /\ IF \E i \in 1..Len(trips) : trips[i].id = id
       THEN /\ now' = now + 1
            /\ response' = Response("completeTrip", 200, id)
       ELSE /\ now' = now
            /\ response' = Response("completeTrip", 404, id)
    /\ UNCHANGED <<vehicles, vehicleLocations, obdData, apiKeys, fanout, req,
                   nsync, updates>>

\* POST /api/keys: storage.createApiKey({key, name, isActive: 1})
CreateApiKey(key) ==
    /\ \A i \in 1..Len(apiKeys) : apiKeys[i].key # key
    /\ apiKeys' = Append(apiKeys, [id |-> Len(apiKeys) + 1, key |-> key,
                                   isActive |-> 1, lastUsedAt |-> <<>>])
    /\ UNCHANGED <<vehicles, trips, vehicleLocations, obdData, now, fanout,
                   req, response, nreq, nsync, updates>>

\* DELETE /api/keys/:id: await storage.deleteApiKey(req.params.id)
DeleteApiKey(id) ==
    /\ apiKeys' = deleteApiKey(id)
    /\ UNCHANGED <<vehicles, trips, vehicleLocations, obdData, now, fanout,
                   req, response, nreq, nsync, updates>>

----------------------------------------------------------------------------
(* OneStepGPSService.syncDevicesToVehicles *)

Device(id, has, p, speed) ==
    [device_id |-> id, hasLatLng |-> has, lat |-> p.lat, lng |-> p.lng,
     speed |-> speed]

\* The result lists getDevices may return; <<>> also when the fetch fails.
DeviceLists ==
    {<<>>,
     <<Device("ABC-1234", TRUE, PtB, 80)>>,
     <<Device("D-2", FALSE, PtA, 0)>>,
     <<Device("D-2", TRUE, PtA, 40), Device("ABC-1234", TRUE, PtA, 40)>>}

\* What the provider answers to the two fetches of getDevices: each is ok,
\* not ok, or throws; result_list is the body of the one that is ok.
Fetch(primary, secondary, list) ==
    [primary |-> primary, secondary |-> secondary, result_list |-> list]

\* A getDevices that returns the body whatever the response status.
getDevicesAnyStatus(fetch) ==
    fetch.result_list

\* getDevices: the Bearer fetch, on a response that is not ok the fetch with
\* the key as query parameter; every error ends in `return []`.
getDevices(fetch) ==
    IF fetch.primary = "ok" THEN fetch.result_list
    ELSE IF fetch.primary = "throws" THEN <<>>
    ELSE IF fetch.secondary = "ok" THEN fetch.result_list
    ELSE <<>>

\* The answers of the provider in the sync cycles of NextSync.
Fetches ==
    {Fetch("ok", "ok", <<>>),
     Fetch("ok", "ok", <<Device("D-2", TRUE, PtA, 40)>>),
     Fetch("ok", "ok", <<Device("d-2", TRUE, PtB, 40),
                         Device("D-2", TRUE, PtA, 40)>>),
     Fetch("nonok", "ok", <<Device("ABC-1234", TRUE, PtB, 80)>>),
     Fetch("nonok", "nonok", <<Device("D-2", TRUE, PtA, 40)>>),
     Fetch("nonok", "throws", <<Device("D-2", TRUE, PtA, 40)>>),
     Fetch("throws", "ok", <<Device("D-2", TRUE, PtA, 40)>>),
     Fetch("ok", "ok", <<Device("E-3", TRUE, PtEquator, 40)>>)}

\* if (device.lat && device.lng): both present and neither 0
HasValidCoordinates(device) ==
    device.hasLatLng /\ device.lat # 0 /\ device.lng # 0

\* A loop that returns at the first device whose processing throws.
SyncNextDeviceStopping(s, counted) ==
    LET n == IF counted THEN req[s].syncedCount + 1 ELSE req[s].syncedCount
    IN  IF Tail(req[s].devices) = <<>> \/ ~counted
        THEN /\ req' = [req EXCEPT ![s] = IdleReq]
             /\ response' = Response("sync", n, 0)
        ELSE /\ req' = [req EXCEPT ![s].vehicle = 0,
                                   ![s].devices = Tail(req[s].devices),
                                   ![s].activeTrip = NoTrip,
                                   ![s].location = NoLocation,
                                   ![s].syncedCount = n,
                                   ![s].pc = "syncGetVehicles"]
             /\ UNCHANGED response

\* syncedCount++ and the loop's next iteration (counted), or the catch
\* block's (not counted); `return syncedCount` after the last device.
SyncNextDevice(s, counted) ==
    LET n == IF counted THEN req[s].syncedCount + 1 ELSE req[s].syncedCount
    IN  IF Tail(req[s].devices) = <<>>
        THEN /\ req' = [req EXCEPT ![s] = IdleReq]
             /\ response' = Response("sync", n, 0)
        ELSE /\ req' = [req EXCEPT ![s].vehicle = 0,
                                   ![s].devices = Tail(req[s].devices),
                                   ![s].activeTrip = NoTrip,
                                   ![s].location = NoLocation,
                                   ![s].syncedCount = n,
                                   ![s].pc = "syncGetVehicles"]
             /\ UNCHANGED response

\* After the vehicle of the head device is known: on to its location, or to
\* the next device.
SyncAfterVehicle(s, vehicleId) ==
    IF HasValidCoordinates(Head(req[s].devices))
    THEN /\ req' = [req EXCEPT ![s].vehicle = vehicleId,
                               ![s].pc = "syncCreateVehicleLocation"]
         /\ UNCHANGED response
    ELSE SyncNextDevice(s, TRUE)

\* A sync cycle begins: const devices = await this.getDevices()
SyncGetDevices(s, devices) ==
    /\ Free(s)
    /\ nsync < MaxSyncs
    /\ nsync' = nsync + 1
    /\ IF devices = <<>>
       THEN /\ response' = Response("sync", 0, 0)
            /\ UNCHANGED req
       ELSE /\ req' = [req EXCEPT ![s] =
                          [IdleReq EXCEPT
                             !.kind = "sync", !.devices = devices,
                             !.doneAtStart = CompletedTrips,
                             !.pc = "syncGetVehicles"]]
            /\ UNCHANGED response
    /\ UNCHANGED <<stores, now, fanout, nreq, updates>>

\* POST /api/onestepgps/sync: a sync cycle begun by a request
ManualSync(s, devices) ==
    /\ Free(s)
    /\ nreq < MaxRequests
    /\ nreq' = nreq + 1
    /\ IF devices = <<>>
       THEN /\ response' = Response("sync", 0, 0)
            /\ UNCHANGED req
       ELSE /\ req' = [req EXCEPT ![s] =
                          [IdleReq EXCEPT
                             !.kind = "sync", !.devices = devices,
                             !.doneAtStart = CompletedTrips,
                             !.pc = "syncGetVehicles"]]
            /\ UNCHANGED response
    /\ UNCHANGED <<stores, now, fanout, nsync, updates>>

\* existingVehicles = await storage.getVehicles(); find by plate
SyncGetVehicles(s) ==
    /\ req[s].kind = "sync"
    /\ req[s].pc = "syncGetVehicles"
    /\ LET device == Head(req[s].devices)
           found == {i \in 1..Len(vehicles) :
                        vehicles[i].plate = device.device_id}
       IN  IF found = {}
           THEN /\ req' = [req EXCEPT ![s].pc = "syncCreateVehicle"]
                /\ UNCHANGED response
           ELSE \E i \in found : SyncAfterVehicle(s, i)
    /\ UNCHANGED <<stores, now, fanout, nreq, nsync, updates>>

\* A createVehicle step on a table without the unique plate.
SyncCreateVehicleAnyPlate(s) ==
    /\ req[s].kind = "sync"
    /\ req[s].pc = "syncCreateVehicle"
    /\ vehicles' = Append(vehicles,
                          [id |-> Len(vehicles) + 1,
                           plate |-> Head(req[s].devices).device_id,
                           isActive |-> 1])
    /\ SyncAfterVehicle(s, Len(vehicles) + 1)
    /\ UNCHANGED <<trips, vehicleLocations, obdData, apiKeys, now, fanout,
                   nreq, nsync, updates>>

\* vehicle = await storage.createVehicle({...}); the insert fails on the
\* unique plate when a row with that plate exists by now.
SyncCreateVehicle(s) ==
    /\ req[s].kind = "sync"
    /\ req[s].pc = "syncCreateVehicle"
    /\ LET device == Head(req[s].devices)
       IN  IF \E i \in 1..Len(vehicles) : vehicles[i].plate = device.device_id
           THEN /\ SyncNextDevice(s, FALSE)
                /\ UNCHANGED vehicles
           ELSE /\ vehicles' = Append(vehicles,
                                  [id |-> Len(vehicles) + 1,
                                   plate |-> device.device_id, isActive |-> 1])
                /\ SyncAfterVehicle(s, Len(vehicles) + 1)
    /\ UNCHANGED <<trips, vehicleLocations, obdData, apiKeys, now, fanout,
                   nreq, nsync, updates>>

\* await storage.createVehicleLocation({vehicleId: vehicle.id, ...})
SyncCreateVehicleLocation(s) ==
    /\ req[s].kind = "sync"
    /\ req[s].pc = "syncCreateVehicleLocation"
    /\ LET device == Head(req[s].devices)
           row == createVehicleLocation(
                     [vehicleId |-> req[s].vehicle, tripId |-> 0,
                      latitude |-> device.lat, longitude |-> device.lng,
                      speed |-> device.speed])
       IN  /\ vehicleLocations' = Append(vehicleLocations, row)
           /\ req' = [req EXCEPT ![s].location = row,
                                 ![s].pc = "syncGetActiveTrip"]
    /\ now' = now + 1
    /\ UNCHANGED <<vehicles, trips, obdData, apiKeys, fanout, response, nreq,
                   nsync, updates>>

\* activeTrip = await storage.getActiveTrip(vehicle.id)
SyncGetActiveTrip(s) ==
    /\ req[s].kind = "sync"
    /\ req[s].pc = "syncGetActiveTrip"
    /\ \E t \in getActiveTrip(req[s].vehicle) :
          IF t.id # 0
          THEN /\ req' = [req EXCEPT ![s].activeTrip = t,
                                     ![s].pc = "syncUpdateTrip"]
               /\ UNCHANGED response
          ELSE SyncNextDevice(s, TRUE)
    /\ UNCHANGED <<stores, now, fanout, nreq, nsync, updates>>

\* An updates object that also moves the start of the trip.
SyncTripUpdatesMovingStart(activeTrip, device, time) ==
    [route |-> Append(activeTrip.route,
                      [lat |-> device.lat, lng |-> device.lng,
                       timestamp |-> time]),
     maxSpeed |-> Max(activeTrip.maxSpeed, device.speed),
     endCoords |-> <<[lat |-> device.lat, lng |-> device.lng]>>,
     startCoords |-> [lat |-> device.lat, lng |-> device.lng]]

\* The updates object the sync computes from the trip it read: no distance.
\* dt_tracker is the device's own time, taken here as the time of the sync.
SyncTripUpdates(activeTrip, device, time) ==
    [route |-> Append(activeTrip.route,
                      [lat |-> device.lat, lng |-> device.lng,
                       timestamp |-> time]),
     maxSpeed |-> Max(activeTrip.maxSpeed, device.speed),
     endCoords |-> <<[lat |-> device.lat, lng |-> device.lng]>>]

\* await storage.updateTrip(activeTrip.id, {...}); syncedCount++
SyncUpdateTrip(s) ==
    /\ req[s].kind = "sync"
    /\ req[s].pc = "syncUpdateTrip"
    /\ trips' = updateTrip(req[s].activeTrip.id,
                           SyncTripUpdates(req[s].activeTrip,
                                           Head(req[s].devices),
                                           req[s].location.timestamp))
    /\ updates' = [updates EXCEPT ![req[s].activeTrip.id] = @ + 1]
    /\ SyncNextDevice(s, TRUE)
    /\ UNCHANGED <<vehicles, vehicleLocations, obdData, apiKeys, now, fanout,
                   nreq, nsync>>

----------------------------------------------------------------------------
(* The program.  Next keeps the set of clients as registerRoutes builds   *)
(* it (empty); the observers' actions are disjuncts of NextFanout.         *)

Next ==
    \/ \E s \in Slots, key \in ApiKeyValues \cup {NoKey}, raw \in LocationBodies :
          ValidateApiKey(s, "location", key, raw)
    \/ \E s \in Slots, key \in ApiKeyValues \cup {NoKey}, raw \in ObdBodies :
          ValidateApiKey(s, "obd", key, raw)
    \/ \E s \in Slots : UpdateApiKeyLastUsed(s)
    \/ \E s \in Slots : LocCreateVehicleLocation(s)
    \/ \E s \in Slots : LocGetActiveTrip(s)
    \/ \E s \in Slots : LocUpdateTrip(s)
    \/ \E s \in Slots : LocBroadcast(s)
    \/ \E s \in Slots : ObdCreateObdData(s)
    \/ \E s \in Slots : ObdBroadcast(s)
    \/ \E s \in Slots, v \in VehicleIds :
          StartTripGetActiveTrip(s, v, "A St", PtA)
    \/ \E s \in Slots : StartTripCreateTrip(s)
    \/ \E id \in 1..(Len(trips) + 1) : CompleteTrip(id, "Z St", PtB)
    \/ \E key \in ApiKeyValues : CreateApiKey(key)
    \/ \E s \in Slots, devices \in DeviceLists : SyncGetDevices(s, devices)
    \/ \E s \in Slots : SyncGetVehicles(s)
    \/ \E s \in Slots : SyncCreateVehicle(s)
    \/ \E s \in Slots : SyncCreateVehicleLocation(s)
    \/ \E s \in Slots : SyncGetActiveTrip(s)
    \/ \E s \in Slots : SyncUpdateTrip(s)

Spec == Init /\ [][Next]_vars

----------------------------------------------------------------------------
(* The routes of part_003: the same endpoints without validateApiKey, and  *)
(* a location handler that stores and broadcasts without a trip update.    *)

\* POST /api/obd/location (part_003): parse, createVehicleLocation
LegacyLocCreateVehicleLocation(s, key, raw) ==
    /\ Free(s)
    /\ nreq < MaxRequests
    /\ nreq' = nreq + 1
    /\ IF insertVehicleLocationSchemaOk(raw)
       THEN LET row == createVehicleLocation(
                          [vehicleId |-> raw.vehicleId.v, tripId |-> 0,
                           latitude |-> raw.latitude.v,
                           longitude |-> raw.longitude.v,
                           speed |-> raw.speed])
            IN  /\ vehicleLocations' = Append(vehicleLocations, row)
                /\ now' = now + 1
                /\ req' = [req EXCEPT ![s] =
                              [IdleReq EXCEPT
                                 !.kind = "location", !.key = key,
                                 !.raw = raw, !.location = row,
                                 !.doneAtStart = CompletedTrips,
                                 !.pc = "broadcast"]]
                /\ UNCHANGED response
       ELSE /\ response' = Response("location", 400, 0)
            /\ UNCHANGED <<vehicleLocations, now, req>>
    /\ UNCHANGED <<vehicles, trips, obdData, apiKeys, fanout, nsync, updates>>

\* POST /api/obd/data (part_003): parse, createObdData
LegacyObdCreateObdData(s, key, raw) ==
    /\ Free(s)
    /\ nreq < MaxRequests
    /\ nreq' = nreq + 1
    /\ IF insertObdDataSchemaOk(raw)
       THEN LET row == createObdData([vehicleId |-> raw.vehicleId.v,
                                      rpm |-> raw.rpm])
            IN  /\ obdData' = Append(obdData, row)
                /\ now' = now + 1
                /\ req' = [req EXCEPT ![s] =
                              [IdleReq EXCEPT
                                 !.kind = "obd", !.key = key, !.raw = raw,
                                 !.obd = row,
                                 !.doneAtStart = CompletedTrips,
                                 !.pc = "broadcast"]]
                /\ UNCHANGED response
       ELSE /\ response' = Response("obd", 400, 0)
            /\ UNCHANGED <<obdData, now, req>>
    /\ UNCHANGED <<vehicles, trips, vehicleLocations, apiKeys, fanout, nsync,
                   updates>>

NextLegacy ==
    \/ \E s \in Slots, key \in ApiKeyValues \cup {NoKey}, raw \in LocationBodies :
          LegacyLocCreateVehicleLocation(s, key, raw)
    \/ \E s \in Slots, key \in ApiKeyValues \cup {NoKey}, raw \in ObdBodies :
          LegacyObdCreateObdData(s, key, raw)
    \/ \E s \in Slots : LocBroadcast(s)
    \/ \E s \in Slots : ObdBroadcast(s)
    \/ \E s \in Slots, v \in VehicleIds :
          StartTripGetActiveTrip(s, v, "A St", PtA)
    \/ \E s \in Slots : StartTripCreateTrip(s)
    \/ \E id \in 1..(Len(trips) + 1) : CompleteTrip(id, "Z St", PtB)

SpecLegacy == Init /\ [][NextLegacy]_vars

----------------------------------------------------------------------------
(* The fanout: observers connect and leave while the devices post.         *)

NextFanout ==
    \/ \E o \in Observers : Connect(o)
    \/ \E o \in Observers : SocketClosing(o)
    \/ \E o \in Observers : OnError(o)
    \/ \E o \in Observers : OnClose(o)
    \/ \E key \in ApiKeyValues : CreateApiKey(key)
    \/ \E s \in Slots, key \in ApiKeyValues \cup {NoKey}, raw \in LocationBodies :
          ValidateApiKey(s, "location", key, raw)
    \/ \E s \in Slots, key \in ApiKeyValues \cup {NoKey}, raw \in ObdBodies :
          ValidateApiKey(s, "obd", key, raw)
    \/ \E s \in Slots : UpdateApiKeyLastUsed(s)
    \/ \E s \in Slots : LocCreateVehicleLocation(s)
    \/ \E s \in Slots : LocGetActiveTrip(s)
    \/ \E s \in Slots : LocUpdateTrip(s)
    \/ \E s \in Slots : LocBroadcast(s)
    \/ \E s \in Slots : ObdCreateObdData(s)
    \/ \E s \in Slots : ObdBroadcast(s)

SpecFanout == Init /\ [][NextFanout]_vars

----------------------------------------------------------------------------
(* The program with a database whose calls may fail under the location     *)
(* handler and under validateApiKey.                                       *)

NextFaults ==
    \/ Next
    \/ \E s \in Slots : LocStorageFails(s)
    \/ \E s \in Slots, kind \in {"location", "obd"}, key \in ApiKeyValues,
          answered \in BOOLEAN :
          ValidateApiKeyRejects(s, kind, key,
                                Raw(Str(1), Num(PtA.lat), Num(PtA.lng), 40, 0),
                                answered)

SpecFaults == Init /\ [][NextFaults]_vars

----------------------------------------------------------------------------
(* The reconciler: the interval's cycle and the cycles of the manual sync  *)
(* endpoint, which may overlap.                                            *)

NextSync ==
    \/ \E s \in Slots, fetch \in Fetches :
          SyncGetDevices(s, getDevices(fetch))
    \/ \E s \in Slots, fetch \in Fetches :
          ManualSync(s, getDevices(fetch))
    \/ \E s \in Slots : SyncGetVehicles(s)
    \/ \E s \in Slots : SyncCreateVehicle(s)
    \/ \E s \in Slots : SyncCreateVehicleLocation(s)
    \/ \E s \in Slots : SyncGetActiveTrip(s)
    \/ \E s \in Slots : SyncUpdateTrip(s)

SpecSync == Init /\ [][NextSync]_vars

----------------------------------------------------------------------------
(* The keys: the administrator creates and revokes keys while the devices  *)
(* post.                                                                   *)

NextKeys ==
    \/ \E key \in ApiKeyValues : CreateApiKey(key)
    \/ \E id \in 1..(Len(apiKeys) + 1) : DeleteApiKey(id)
    \/ \E s \in Slots, key \in ApiKeyValues \cup {NoKey}, raw \in LocationBodies :
          ValidateApiKey(s, "location", key, raw)
    \/ \E s \in Slots, key \in ApiKeyValues \cup {NoKey}, raw \in ObdBodies :
          ValidateApiKey(s, "obd", key, raw)
    \/ \E s \in Slots : UpdateApiKeyLastUsed(s)
    \/ \E s \in Slots : LocCreateVehicleLocation(s)
    \/ \E s \in Slots : LocGetActiveTrip(s)
    \/ \E s \in Slots : LocUpdateTrip(s)
    \/ \E s \in Slots : LocBroadcast(s)
    \/ \E s \in Slots : ObdCreateObdData(s)
    \/ \E s \in Slots : ObdBroadcast(s)

SpecKeys == Init /\ [][NextKeys]_vars

----------------------------------------------------------------------------
(* The reconciler with a database whose calls may fail under a cycle.      *)

SyncStorageCalls ==
    {"syncGetVehicles", "syncCreateVehicle", "syncCreateVehicleLocation",
     "syncGetActiveTrip", "syncUpdateTrip"}

\* syncDevicesToVehicles: a storage call of the loop body rejects; the
\* catch block logs and the loop goes on with the next device
SyncStorageFails(s) ==
    /\ req[s].kind = "sync"
    /\ req[s].pc \in SyncStorageCalls
    /\ SyncNextDevice(s, FALSE)
    /\ UNCHANGED <<stores, now, fanout, nreq, nsync, updates>>

NextSyncFaults ==
    \/ NextSync
    \/ \E s \in Slots : SyncStorageFails(s)

SpecSyncFaults == Init /\ [][NextSyncFaults]_vars

----------------------------------------------------------------------------
(* Properties *)

ActiveTripsOf(vehicleId) ==
    {i \in 1..Len(trips) : IsActiveTripOf(trips[i], vehicleId)}

\* The handler of slot s takes this step.
Acts(s) == req'[s] # req[s]

\* The sum of calculateDistance over the consecutive points of a route.
RECURSIVE RouteDistance(_)
RouteDistance(route) ==
    IF Len(route) < 2
    THEN 0
    ELSE LET n == Len(route)
         IN  RouteDistance(SubSeq(route, 1, n - 1))
             + calculateDistance(route[n - 1].lat, route[n - 1].lng,
                                 route[n].lat, route[n].lng)

\* A handler has read trip t and has not yet written its update.
UpdatePending(t) ==
    \E s \in Slots : /\ req[s].pc \in {"updateTrip", "syncUpdateTrip"}
                     /\ req[s].activeTrip.id = t

\* A body the claims call malformed: a required field is absent or a
\* coordinate is not a number.
Malformed(kind, raw) ==
    IF kind = "location"
    THEN \/ raw.vehicleId.t # "string"
         \/ raw.latitude.t # "number"
         \/ raw.longitude.t # "number"
    ELSE raw.vehicleId.t # "string"

\* A well-formed body whose latitude is outside [-90, 90] or whose
\* longitude is outside [-180, 180].
OutOfRange(raw) ==
    /\ raw.latitude.t = "number"
    /\ raw.longitude.t = "number"
    /\ \/ raw.latitude.v < -900000 \/ raw.latitude.v > 900000
       \/ raw.longitude.v < -1800000 \/ raw.longitude.v > 1800000

\* C1: in every reachable state, under any interleaving of the handlers,
\* each vehicle has at most one trip whose status is active.
C1_AtMostOneActiveTrip ==
    \A v \in VehicleIds : Cardinality(ActiveTripsOf(v)) <= 1

\* C2: a startTrip creates its trip only when the vehicle has no active
\* trip at that moment; otherwise it answers with a conflict and the trips
\* stay as they are.
C2_StartTripOnlyWithoutActiveTrip ==
    [][\A s \in Slots :
          StartTripCreateTrip(s) => ActiveTripsOf(req[s].vehicleId) = {}]_vars

\* C3: once no ingestion is between its read and its write of a trip, the
\* trip's route holds one point for every update ingestion applied to it:
\* concurrent ingestions lose no route point.
C3_NoRoutePointLost ==
    \A t \in 1..Len(trips) :
        ~UpdatePending(t) => Len(trips[t].route) = updates[t]

\* C4: the distance of every active trip equals the sum of distanceMiles
\* over the consecutive points of its route.
C4_DistanceIsSumOverRoute ==
    \A t \in 1..Len(trips) :
        trips[t].status = "active"
            => trips[t].distance = RouteDistance(trips[t].route)

\* C5: a location ingestion that began after a trip was completed leaves
\* that trip's route, distance and maxSpeed as they are in every step it
\* takes.
C5_LaterIngestionLeavesCompletedTrip ==
    [][\A s \in Slots :
          (req[s].kind = "location" /\ Acts(s))
              => \A t \in req[s].doneAtStart :
                    /\ trips'[t].route = trips[t].route
                    /\ trips'[t].distance = trips[t].distance
                    /\ trips'[t].maxSpeed = trips[t].maxSpeed]_vars

\* C5 witness: a location ingestion for the vehicle of a trip that was
\* already completed when it began has stored its sample and passed its
\* trip lookup.
C5_IngestionAfterCompleteTrip ==
    \E s \in Slots :
        /\ req[s].kind = "location"
        /\ req[s].pc = "broadcast"
        /\ \E t \in req[s].doneAtStart :
              trips[t].vehicleId = req[s].location.vehicleId

\* C6: no step changes the route, distance, maxSpeed or endCoords of a
\* trip whose status is completed, the steps of handlers already in flight
\* when the trip was completed included.
C6_CompletedTripUnchanged ==
    [][\A t \in 1..Len(trips) :
          trips[t].status = "completed"
              => /\ trips'[t].route = trips[t].route
                 /\ trips'[t].distance = trips[t].distance
                 /\ trips'[t].maxSpeed = trips[t].maxSpeed
                 /\ trips'[t].endCoords = trips[t].endCoords]_vars

\* C7: completeTrip with an id that names no trip or names a trip that is
\* not active answers not-found and leaves the trips as they are.
C7_CompleteTripNotFound ==
    [][\A id \in 1..(Len(trips) + 1) :
          (/\ CompleteTrip(id, "Z St", PtB)
           /\ ~\E i \in 1..Len(trips) :
                 trips[i].id = id /\ trips[i].status = "active")
              => /\ response' = Response("completeTrip", 404, id)
                 /\ trips' = trips]_vars

\* C8: a location body whose latitude or longitude is out of range is
\* answered with a validation error, and neither the location history, the
\* trips nor the published messages change.
C8_OutOfRangeRejected ==
    [][\A s \in Slots :
          (/\ req[s].kind = "location"
           /\ req[s].pc = "createVehicleLocation"
           /\ Acts(s)
           /\ OutOfRange(req[s].raw))
              => /\ response' = Response("location", 400, 0)
                 /\ UNCHANGED <<vehicleLocations, trips, published,
                                delivered>>]_vars

\* C9: no step of an ingestion whose body is malformed changes the
\* location history, the diagnostics history, the trips or the published
\* and delivered messages, and the handler ends with a validation error.
C9_MalformedRejected ==
    [][\A s \in Slots :
          (/\ req[s].kind \in {"location", "obd"}
           /\ Acts(s)
           /\ Malformed(req[s].kind, req[s].raw))
              => /\ UNCHANGED <<vehicleLocations, obdData, trips, published,
                                delivered>>
                 /\ req'[s].pc = "idle"
                        => response' = Response(req[s].kind, 400, 0)]_vars

\* C9 witness: a location ingestion has been answered with a validation
\* error.
C9_LocationAnswered400 ==
    response = Response("location", 400, 0)

\* C10: no step of an ingestion that presented no credential, or one that
\* matches no active key, changes a table or publishes a message.
C10_UnauthenticatedChangesNothing ==
    [][\A s \in Slots :
          LET r == IF req[s].pc = "idle" THEN req'[s] ELSE req[s]
          IN  (/\ Acts(s)
               /\ r.kind \in {"location", "obd"}
               /\ ~getApiKey(r.key))
                  => UNCHANGED <<stores, published, delivered>>]_vars

\* The sample most recently stored for a vehicle, in the order of the
\* inserts; NoLocation before any.
LastStored(vehicleId) ==
    LET idx == {j \in 1..Len(vehicleLocations) :
                   vehicleLocations[j].vehicleId = vehicleId}
    IN  IF idx = {} THEN NoLocation
        ELSE vehicleLocations[CHOOSE j \in idx : \A k \in idx : k <= j]

\* The vehicle has no trip whose status is active.
NoActiveTrip(vehicleId) ==
    \A i \in 1..Len(trips) :
        trips[i].vehicleId = vehicleId => trips[i].status # "active"

\* C11: in every state the current location of a vehicle is the sample
\* most recently stored for it, and not-found before any sample, whether
\* or not the vehicle has an active trip.
C11_CurrentLocationIsLastSample ==
    \A v \in VehicleIds : getVehicleLocation(v) = LastStored(v)

\* C11 witness: a vehicle has at least two stored samples of which the
\* latest differs in position from the one before, while the other vehicle
\* has none.
C11_TwoSamplesStored ==
    \E v \in VehicleIds, i, j \in 1..Len(vehicleLocations) :
        /\ i < j
        /\ vehicleLocations[i].vehicleId = v
        /\ vehicleLocations[j].vehicleId = v
        /\ vehicleLocations[j] = LastStored(v)
        /\ vehicleLocations[i].latitude # vehicleLocations[j].latitude
        /\ \E w \in VehicleIds : LastStored(w) = NoLocation

\* C12: when an ingestion applies its sample to the trip that was active,
\* the stored sample is among the rows routeForTrip returns for that trip.
C12_RouteForTripHoldsSample ==
    [][\A s \in Slots :
          (/\ req[s].kind = "location"
           /\ req[s].pc = "updateTrip"
           /\ Acts(s))
              => \E i \in 1..Len(getVehicleRoute(req[s].activeTrip.id)) :
                    getVehicleRoute(req[s].activeTrip.id)[i].id
                        = req[s].location.id]_vars

\* C13: a step of a location ingestion taken while its vehicle has no
\* active trip leaves every trip as it is, and its trip lookup sends it
\* straight on to the broadcast.
C13_NoActiveTripNoTripChange ==
    [][\A s \in Slots :
          (/\ req[s].kind = "location"
           /\ req[s].pc \in {"createVehicleLocation", "getActiveTrip",
                              "broadcast"}
           /\ Acts(s)
           /\ req[s].activeTrip = NoTrip
           /\ req[s].pc # "createVehicleLocation"
                  => NoActiveTrip(req[s].location.vehicleId))
              => /\ trips' = trips
                 /\ req[s].pc = "getActiveTrip"
                        => req'[s].pc = "broadcast"]_vars

\* C13 witness: an ingestion for a vehicle without an active trip has
\* stored its sample, found no trip and stands before its broadcast, and
\* its sample is the vehicle's current location.
C13_IngestedWithoutTrip ==
    \E s \in Slots :
        /\ req[s].kind = "location"
        /\ req[s].pc = "broadcast"
        /\ req[s].activeTrip = NoTrip
        /\ NoActiveTrip(req[s].location.vehicleId)
        /\ getVehicleLocation(req[s].location.vehicleId) = req[s].location

\* C14: the maxSpeed of an active trip that startTrip created never
\* decreases.
C14_MaxSpeedNeverDecreases ==
    [][\A t \in 1..Len(trips) :
          (trips[t].status = "active" /\ t # SeedTrip.id)
              => trips'[t].maxSpeed >= trips[t].maxSpeed]_vars

\* seq is sub with further elements in between: sub's elements appear in
\* seq in sub's order.
RECURSIVE IsSubSeq(_, _)
IsSubSeq(sub, seq) ==
    IF sub = <<>> THEN TRUE
    ELSE IF seq = <<>> THEN FALSE
    ELSE IF Head(sub) = Head(seq) THEN IsSubSeq(Tail(sub), Tail(seq))
    ELSE IsSubSeq(sub, Tail(seq))

\* C15: a step that publishes a notification hands it to exactly the
\* observers whose connection is open in that moment, whatever vehicle it
\* concerns, and no other step hands an observer anything: an observer
\* that connects later is not given what was published before.
C15_DeliveredToOpenObservers ==
    [][\A o \in Observers :
          IF published' # published
          THEN delivered'[o] =
                  IF readyState[o] = "OPEN"
                  THEN Append(delivered[o], published'[Len(published')])
                  ELSE delivered[o]
          ELSE delivered'[o] = delivered[o]]_vars

\* C15 witness: notifications for both vehicles were published, one
\* observer received all of them and another, now open, received none.
C15_LateObserverGotNothing ==
    /\ \E i, j \in 1..Len(published) :
          published[i].vehicleId # published[j].vehicleId
    /\ \E o1, o2 \in Observers :
          /\ delivered[o1] = published
          /\ readyState[o2] = "OPEN"
          /\ delivered[o2] = <<>>

\* C16: what an observer was handed is, in order, a part of what was
\* published: two notifications it received both arrive in the order of
\* their publish calls.
C16_DeliveredInPublishOrder ==
    \A o \in Observers : IsSubSeq(delivered[o], published)

\* C16 witness: an observer received two different notifications.
C16_TwoDelivered ==
    \E o \in Observers :
        /\ Len(delivered[o]) >= 2
        /\ delivered[o][1] # delivered[o][2]

\* C17: after a step that publishes, every observer in the set has an open
\* connection.
C17_PublishDropsClosedObservers ==
    [][published' # published
          => \A o \in clients' : readyState'[o] = "OPEN"]_vars

\* C18: the step in which an ingestion that stored its sample publishes
\* answers the caller with success, whatever the state of the observers.
C18_IngestionSucceedsDespiteFanout ==
    [][\A s \in Slots :
          (/\ req[s].kind \in {"location", "obd"}
           /\ req[s].pc = "broadcast"
           /\ Acts(s))
              => response' = Response(req[s].kind, 200, 0)]_vars

\* C18 witness: a location ingestion was answered with success although
\* an observer of the set, whose connection is no longer open, was not
\* given its notification.
C18_SuccessWithDeadObserver ==
    /\ response = Response("location", 200, 0)
    /\ published # <<>>
    /\ published[Len(published)].type = "location"
    /\ \E o \in clients :
          /\ readyState[o] = "CLOSING"
          /\ \A i \in 1..Len(delivered[o]) :
                delivered[o][i] # published[Len(published)]

\* C19: when a location ingestion that passed validation ends with an
\* error, its sample is not in the location history (and so is not the
\* vehicle's current location).
C19_ErrorMeansNothingStored ==
    [][\A s \in Slots :
          (/\ req[s].kind = "location"
           /\ Acts(s)
           /\ req'[s].pc = "idle"
           /\ response' = Response("location", 500, 0))
              => \A i \in 1..Len(vehicleLocations') :
                    vehicleLocations'[i] # req[s].location]_vars

\* C20: the sync's step that applies a device's sample to the active trip
\* writes what a direct ingestion of the same sample would write (route,
\* distance, maxSpeed, endCoords), and the step that finishes a device
\* whose sample was stored publishes one location notification for it.
C20_SyncActsAsIngestion ==
    [][\A s \in Slots :
          (req[s].kind = "sync" /\ Acts(s))
              => /\ req[s].pc = "syncUpdateTrip"
                    => trips' = updateTrip(req[s].activeTrip.id,
                                           LocTripUpdates(req[s].activeTrip,
                                                          req[s].location))
                 /\ req[s].pc \in {"syncGetActiveTrip", "syncUpdateTrip"}
                    => (req'[s].pc # "syncUpdateTrip"
                          => published' =
                                Append(published,
                                       LocationUpdate(req[s].location)))]_vars

\* The fetch of a cycle fails, or returns no devices.
FailedOrEmpty(fetch) ==
    \/ fetch.primary = "throws"
    \/ fetch.primary = "nonok" /\ fetch.secondary # "ok"
    \/ fetch.result_list = <<>>

\* C21: no two vehicles have the same plate, and the vehicle a sync cycle
\* has resolved for a device is the one whose plate is exactly the device's
\* id, also when cycles overlap.
C21_OneVehiclePerPlate ==
    /\ \A i, j \in 1..Len(vehicles) :
          vehicles[i].plate = vehicles[j].plate => i = j
    /\ \A s \in Slots :
          (/\ req[s].kind = "sync"
           /\ req[s].pc \in {"syncCreateVehicleLocation", "syncGetActiveTrip",
                              "syncUpdateTrip"})
              => /\ req[s].vehicle \in 1..Len(vehicles)
                 /\ vehicles[req[s].vehicle].plate
                        = Head(req[s].devices).device_id

\* C21 witness: after three cycles, two of them overlapping, the devices
\* d-2 and D-2 each have their own vehicle.
C21_OverlappingCyclesSynced ==
    /\ nsync + nreq = 3
    /\ \A s \in Slots : Idle(s)
    /\ \E i, j \in 1..Len(vehicles) :
          vehicles[i].plate = "d-2" /\ vehicles[j].plate = "D-2"
    /\ Len(vehicles) = 3

\* C22: a cycle whose fetch fails or returns no devices changes no table,
\* reports 0 synced devices and leaves no handler behind.
C22_FailedCycleChangesNothing ==
    [][\A s \in Slots, fetch \in Fetches :
          (/\ FailedOrEmpty(fetch)
           /\ \/ SyncGetDevices(s, getDevices(fetch))
              \/ ManualSync(s, getDevices(fetch)))
              => /\ UNCHANGED <<stores, published, req>>
                 /\ response' = Response("sync", 0, 0)]_vars

\* C22 witness: a cycle has ended with 0 synced devices and no table has
\* changed, and a cycle after it has begun.
C22_CycleAfterFailedCycle ==
    /\ nsync + nreq >= 2
    /\ stores = <<(<<SeedVehicle>>), (<<SeedTrip>>), (<<SeedLocation>>),
                  (<<SeedObd>>), (<<>>)>>
    /\ \E s \in Slots : req[s].kind = "sync"

\* C23: no request is left without a response: no handler has ended
\* without answering its caller.
C23_EveryRequestAnswered ==
    \A s \in Slots : req[s].pc # "unanswered"

\* C24: tripsForVehicle returns exactly the trips of the vehicle, each
\* once, and of two adjacent trips of the result the earlier one did not
\* start before the later one.
C24_TripsNewestFirst ==
    \A v \in VehicleIds :
        LET result == getTripsByVehicle(v)
        IN  /\ {result[i] : i \in 1..Len(result)}
                  = {trips[i] : i \in {j \in 1..Len(trips) :
                                          trips[j].vehicleId = v}}
            /\ Len(result) = Cardinality({j \in 1..Len(trips) :
                                             trips[j].vehicleId = v})
            /\ \A i \in 1..(Len(result) - 1) :
                  result[i].startTime >= result[i + 1].startTime

\* C24 witness: a vehicle has two trips that started at different times
\* while the other vehicle has a trip of its own.
C24_TwoTripsOfOneVehicle ==
    \E v, w \in VehicleIds :
        /\ v # w
        /\ Len(getTripsByVehicle(v)) >= 2
        /\ getTripsByVehicle(v)[1].startTime
              > getTripsByVehicle(v)[2].startTime
        /\ Len(getTripsByVehicle(w)) >= 1

\* C25: on the same calls the in-memory store and the durable store give
\* the same answers to getApiKey, getVehicleLocation and getVehicleRoute.
C25_StoresInterchangeable ==
    /\ \A key \in ApiKeyValues : MemStorage_getApiKey(key) = getApiKey(key)
    /\ \A v \in VehicleIds :
          MemStorage_getVehicleLocation(v) = getVehicleLocation(v)
    /\ \A t \in 1..Len(trips) :
          MemStorage_getVehicleRoute(t) = getVehicleRoute(t)

\* C26: a completeTrip on an active trip sets status, endTime, endLocation
\* and endCoords (the caller's, whatever ingestion had written there) and
\* leaves every other field of the trip as it is.
C26_CompleteTripSetsEnd ==
    [][\A id \in 1..Len(trips) :
          (CompleteTrip(id, "Z St", PtB) /\ trips[id].status = "active")
              => /\ trips'[id] = [trips[id] EXCEPT
                                    !.status = "completed",
                                    !.endTime = <<now>>,
                                    !.endLocation = <<"Z St">>,
                                    !.endCoords = <<PtB>>]
                 /\ response' = Response("completeTrip", 200, id)]_vars

\* C26 witness: a trip whose route ends at another point than the one the
\* caller supplied was completed with the caller's endCoords.
C26_CompletedOverLivePosition ==
    /\ response.kind = "completeTrip"
    /\ response.status = 200
    /\ LET trip == trips[response.tripId]
       IN  /\ trip.status = "completed"
           /\ trip.route # <<>>
           /\ trip.route[Len(trip.route)].lat # PtB.lat
           /\ trip.endCoords = <<PtB>>

\* C27: a completeTrip on an active trip sets duration to the time from
\* startTime to endTime.
C27_DurationDerivedAtCompletion ==
    [][\A id \in 1..Len(trips) :
          (CompleteTrip(id, "Z St", PtB) /\ trips[id].status = "active")
              => trips'[id].duration
                    = trips'[id].endTime[1] - trips'[id].startTime]_vars

\* C28: the trip a startTrip creates is active, has an empty route, zero
\* distance, maxSpeed, avgSpeed and duration, no endTime, endLocation or
\* endCoords, and the creation time as startTime.
C28_StartTripCreatesFreshTrip ==
    [][\A s \in Slots :
          StartTripCreateTrip(s)
              => trips' = Append(trips,
                    [id |-> Len(trips) + 1, vehicleId |-> req[s].vehicleId,
                     startLocation |-> req[s].text,
                     endLocation |-> <<>>, startCoords |-> req[s].coords,
                     endCoords |-> <<>>, distance |-> 0, duration |-> 0,
                     avgSpeed |-> 0, maxSpeed |-> 0, route |-> <<>>,
                     startTime |-> now, endTime |-> <<>>,
                     status |-> "active"])]_vars

\* C28 witness: a startTrip has succeeded for a vehicle that has an earlier,
\* completed trip with a distance above 0.
C28_StartedAfterEarlierTrip ==
    /\ response.kind = "startTrip"
    /\ response.status = 200
    /\ \E t \in 1..Len(trips) :
          /\ t < response.tripId
          /\ trips[t].vehicleId = trips[response.tripId].vehicleId
          /\ trips[t].status = "completed"
          /\ trips[t].distance > 0

\* C29: no step changes the vehicleId, startLocation, startCoords or
\* startTime of a trip.
C29_StartOfTripImmutable ==
    [][\A t \in 1..Len(trips) :
          /\ trips'[t].vehicleId = trips[t].vehicleId
          /\ trips'[t].startLocation = trips[t].startLocation
          /\ trips'[t].startCoords = trips[t].startCoords
          /\ trips'[t].startTime = trips[t].startTime]_vars

\* C29 witness: a trip that ingestion and the sync have both updated has
\* been completed.
C29_UpdatedAndCompleted ==
    \E t \in 1..Len(trips) :
        /\ trips[t].status = "completed"
        /\ updates[t] >= 2
        /\ nsync = 1
        /\ \E i \in 1..Len(apiKeys) : apiKeys[i].lastUsedAt # <<>>

\* C30: a trip whose status is completed stays completed in every step,
\* the updates of ingestions in flight included.
C30_CompletedStaysCompleted ==
    [][\A t \in 1..Len(trips) :
          trips[t].status = "completed"
              => trips'[t].status = "completed"]_vars

\* C30 witness: an ingestion that was in flight when a trip was completed
\* has written its update to the completed trip.
C30_UpdatedAfterCompletion ==
    \E t \in 1..Len(trips) :
        /\ trips[t].status = "completed"
        /\ trips[t].route # <<>>
        /\ trips[t].endCoords # <<PtB>>

\* C31: a location ingestion publishes in the step that answers success and
\* in no other: by then its sample is stored and, when it found an active
\* trip, its trip update was the step before; the one message published is
\* the notification of its sample, and an ingestion that ends with an error
\* publishes nothing.
C31_PublishAfterStoreAndTripUpdate ==
    [][\A s \in Slots :
          (req[s].kind = "location" /\ Acts(s))
              => /\ IF req'[s].pc = "idle"
                       /\ response' = Response("location", 200, 0)
                    THEN /\ published' =
                               Append(published,
                                      LocationUpdate(req[s].location))
                         /\ \E i \in 1..Len(vehicleLocations) :
                               vehicleLocations[i] = req[s].location
                    ELSE published' = published
                 /\ (req'[s].pc = "broadcast" /\ req[s].activeTrip.id # 0)
                       => /\ req[s].pc = "updateTrip"
                          /\ trips' = updateTrip(
                                         req[s].activeTrip.id,
                                         LocTripUpdates(req[s].activeTrip,
                                                        req[s].location))]_vars

\* C31 witness: of two location ingestions, one ended with an error after
\* its sample was stored and one, which updated the active trip, was
\* answered with success; one notification was published.
C31_OnePublishedOneFailed ==
    /\ nreq = 2
    /\ \A s \in Slots : Idle(s)
    /\ response = Response("location", 200, 0)
    /\ Len(vehicleLocations) = 3
    /\ Len(published) = 1
    /\ updates[SeedTrip.id] = 1

\* What the store holds for one vehicle: its current location, its current
\* diagnostic and its trips.
VehicleView(vehicleId) ==
    <<getVehicleLocation(vehicleId), getLatestObdData(vehicleId),
      getTripsByVehicle(vehicleId)>>

\* The vehicle a request in flight names; 0 when it names none.
RequestVehicle(r) ==
    IF r.kind \in {"location", "obd"} THEN r.raw.vehicleId.v
    ELSE IF r.kind = "startTrip" THEN r.vehicleId
    ELSE 0

\* C32: a step of an ingestion or a startTrip for one vehicle, and a
\* completeTrip of one vehicle's trip, leave the current location, the
\* current diagnostic and the trips of every other vehicle as they are.
C32_OtherVehicleUntouched ==
    [][/\ \A s \in Slots :
             (req[s].kind \in {"location", "obd", "startTrip"} /\ Acts(s))
                 => \A v \in VehicleIds \ {RequestVehicle(req[s])} :
                       VehicleView(v)' = VehicleView(v)
       /\ \A id \in 1..Len(trips) :
             CompleteTrip(id, "Z St", PtB)
                 => \A v \in VehicleIds \ {trips[id].vehicleId} :
                       VehicleView(v)' = VehicleView(v)]_vars

\* C32 witness: requests for both vehicles have interleaved: vehicle 2 has
\* an active trip and a current location of its own while an ingestion for
\* vehicle 1 stands between its trip lookup and its trip update.
C32_TwoVehiclesInterleaved ==
    /\ ActiveTripsOf(2) # {}
    /\ getVehicleLocation(2) # NoLocation
    /\ \E s \in Slots :
          /\ req[s].kind = "location"
          /\ req[s].pc = "updateTrip"
          /\ req[s].location.vehicleId = 1

\* C33: no step of a diagnostic ingestion changes the location history or
\* a trip, or the current diagnostic of another vehicle; the step that
\* stores its sample makes the sample the vehicle's current diagnostic, and
\* the step that answers success publishes the one obd notification of the
\* sample while no other step of it publishes.
C33_DiagnosticChangesOnlyCurrentDiagnostic ==
    [][\A s \in Slots :
          (req[s].kind = "obd" /\ Acts(s))
              => /\ UNCHANGED <<vehicleLocations, trips>>
                 /\ \A v \in VehicleIds \ {req[s].raw.vehicleId.v} :
                       getLatestObdData(v)' = getLatestObdData(v)
                 /\ (req[s].pc = "createObdData" /\ req'[s].pc = "broadcast")
                       => /\ getLatestObdData(req[s].raw.vehicleId.v)'
                                = req'[s].obd
                          /\ req'[s].obd.vehicleId = req[s].raw.vehicleId.v
                          /\ req'[s].obd.rpm = req[s].raw.rpm
                 /\ IF req'[s].pc = "idle"
                       /\ response' = Response("obd", 200, 0)
                    THEN published' = Append(published, ObdUpdate(req[s].obd))
                    ELSE published' = published]_vars

\* C33 witness: a diagnostic ingestion for the seeded vehicle, which has an
\* earlier diagnostic, a current location and a trip, was answered with
\* success and its sample is the vehicle's current diagnostic.
C33_DiagnosticIngested ==
    /\ response = Response("obd", 200, 0)
    /\ published # <<>>
    /\ published[Len(published)].type = "obd"
    /\ published[Len(published)].vehicleId = SeedVehicle.id
    /\ getLatestObdData(SeedVehicle.id).rpm = 3000
    /\ getLatestObdData(SeedVehicle.id) # SeedObd

\* C34: the store holds at most one diagnostic record per vehicle, however
\* many diagnostic samples were ingested for it.
C34_OneDiagnosticPerVehicle ==
    \A v \in VehicleIds :
        Cardinality({i \in 1..Len(obdData) : obdData[i].vehicleId = v}) <= 1

\* The devices of the first attempt that succeeds, the primary one tried
\* first; no devices when both attempts fail.
FirstSuccessfulAttempt(fetch) ==
    IF fetch.primary = "ok" \/ fetch.secondary = "ok"
    THEN fetch.result_list
    ELSE <<>>

\* C35: a cycle begins with the devices of the first attempt of its fetch
\* that succeeds, the secondary attempt being made whenever the primary one
\* fails, and with no devices only when both attempts fail.
C35_FetchFallsBackToSecondary ==
    [][\A s \in Slots, fetch \in Fetches :
          (\/ SyncGetDevices(s, getDevices(fetch))
           \/ ManualSync(s, getDevices(fetch)))
              => getDevices(fetch) = FirstSuccessfulAttempt(fetch)]_vars

\* C36: when a cycle has resolved the vehicle of a device record that
\* carries a latitude and a longitude, a coordinate equal to 0 included,
\* its next step records a location sample for that vehicle.
C36_PresentCoordinatesRecorded ==
    [][\A s \in Slots :
          (/\ req[s].kind = "sync"
           /\ Acts(s)
           /\ \/ req[s].pc = "syncGetVehicles"
                 /\ req'[s].pc # "syncCreateVehicle"
              \/ req[s].pc = "syncCreateVehicle" /\ vehicles' # vehicles
           /\ Head(req[s].devices).hasLatLng)
              => /\ req'[s].pc = "syncCreateVehicleLocation"
                 /\ req'[s].devices = req[s].devices]_vars

\* The step of slot s is one in which the processing of a device throws:
\* a storage call rejects, or createVehicle meets an existing plate.
SyncThrows(s) ==
    \/ SyncStorageFails(s)
    \/ /\ req[s].pc = "syncCreateVehicle"
       /\ vehicles' = vehicles

\* C37: the step of a cycle that ends the processing of a device, thrown or
\* not, goes on with the next device of the list when there is one and
\* returns after the last; the count it carries on or returns has grown by
\* one exactly when the processing did not throw.
C37_CycleSurvivesDeviceFailure ==
    [][\A s \in Slots :
          (/\ req[s].kind = "sync"
           /\ Acts(s)
           /\ \/ req'[s].pc = "idle"
              \/ req'[s].devices # req[s].devices
              \/ SyncThrows(s))
              => LET n == IF SyncThrows(s) THEN req[s].syncedCount
                          ELSE req[s].syncedCount + 1
                 IN  IF Tail(req[s].devices) = <<>>
                     THEN /\ req'[s].pc = "idle"
                          /\ response' = Response("sync", n, 0)
                     ELSE /\ req'[s].devices = Tail(req[s].devices)
                          /\ req'[s].pc = "syncGetVehicles"
                          /\ req'[s].syncedCount = n]_vars

\* C37 witness: the one cycle that ran had the devices d-2 and D-2; the
\* storing of d-2's sample threw after its vehicle was created, D-2 was
\* processed after it, and the cycle returned 1.
C37_SecondDeviceSyncedAfterFailure ==
    /\ nsync + nreq = 1
    /\ \A s \in Slots : Idle(s)
    /\ response = Response("sync", 1, 0)
    /\ Len(vehicles) = 3
    /\ vehicles[2].plate = "d-2"
    /\ vehicles[3].plate = "D-2"
    /\ Len(vehicleLocations) = 2
    /\ vehicleLocations[2].vehicleId = 3

\* The location notifications published for a vehicle, in publish order.
PublishedLocations(vehicleId) ==
    SelectSeq(published,
              LAMBDA m : m.type = "location" /\ m.vehicleId = vehicleId)

\* A location ingestion for the vehicle is in flight.
IngestionInFlight(vehicleId) ==
    \E s \in Slots : /\ req[s].kind = "location"
                     /\ req[s].raw.vehicleId.v = vehicleId

\* C38: while no location ingestion for a vehicle is in flight, the last
\* location notification published for it carries the coordinates and the
\* timestamp of the vehicle's current location.
C38_LastPublishedIsCurrentLocation ==
    \A v \in VehicleIds :
        (~IngestionInFlight(v) /\ PublishedLocations(v) # <<>>)
            => LET m == PublishedLocations(v)[Len(PublishedLocations(v))]
                   current == getVehicleLocation(v)
               IN  /\ m.latitude = current.latitude
                   /\ m.longitude = current.longitude
                   /\ m.timestamp = current.timestamp

\* The key has a record that was deactivated.
Revoked(key) ==
    \E i \in 1..Len(apiKeys) : apiKeys[i].key = key /\ apiKeys[i].isActive = 0

\* C39: an ingestion that presents a revoked key is answered 403 in its
\* first step and takes no other, so that no table and no published message
\* changes, while one that presents a key that was created and not revoked
\* goes on; deleteApiKey keeps the record of the key and deactivates it,
\* and no step activates a deactivated record again.
C39_RevokedKeyRejected ==
    [][/\ \A s \in Slots, kind \in {"location", "obd"}, key \in ApiKeyValues,
             raw \in LocationBodies \cup ObdBodies :
             ValidateApiKey(s, kind, key, raw)
                 => IF Revoked(key)
                    THEN /\ response' = Response(kind, 403, 0)
                         /\ UNCHANGED <<stores, published, delivered, req>>
                    ELSE (\E i \in 1..Len(apiKeys) : apiKeys[i].key = key)
                            => req'[s].pc = "updateApiKeyLastUsed"
       /\ \A id \in 1..Len(apiKeys) :
             DeleteApiKey(id)
                 => apiKeys' = [apiKeys EXCEPT ![id].isActive = 0]
       /\ \A i \in 1..Len(apiKeys) :
             apiKeys[i].isActive = 0
                 => /\ Len(apiKeys') >= i
                    /\ apiKeys'[i].key = apiKeys[i].key
                    /\ apiKeys'[i].isActive = 0]_vars

\* C39 witness: a key was accepted for a location ingestion, then revoked,
\* and a later ingestion that presented it was answered 403.
C39_RejectedAfterRevocation ==
    /\ response.status = 403
    /\ nreq = 2
    /\ \A s \in Slots : Idle(s)
    /\ Len(vehicleLocations) = 2
    /\ \E i \in 1..Len(apiKeys) :
          /\ apiKeys[i].isActive = 0
          /\ apiKeys[i].lastUsedAt # <<>>

====
